---- MODULE Spec2Model ----
(***************************************************************************)
(* Model of the robot web server entry point (package server, serveWeb):   *)
(* the main goroutine with its deferred clean-up, the configuration        *)
(* supervisor goroutine that applies watcher candidates to the live robot, *)
(* and the restart-checker goroutine that polls the control plane; and of  *)
(* the config package it relies on: the attribute-map converter registry,  *)
(* configuration validation and the attribute-map-to-struct conversion.    *)
(***************************************************************************)
EXTENDS Integers, Sequences, FiniteSets, TLC

\* ------------------------------------------------------------------ bounds
\* network settings are drawn from 0..MaxNet
MaxNet == 1
\* the control plane supplies restart-check intervals from 1..MaxInterval
MaxInterval == 2

\* converter functions handed to the registry are drawn from 1..MaxConv
MaxConv == 2

\* a configuration document lists at most MaxEntries components
MaxEntries == 2

\* attribute values are the strings "1".."MaxVal" and the numbers 1..MaxVal
MaxVal == 1

\* the baseline restart-check interval (a package constant used at line 185)
defaultNeedsRestartCheckInterval == 1

\* ------------------------------------------------------------------ values
\* a processed configuration: only the fields the supervisor's decisions read
\* the component payload of a configuration: the supervisor never looks into
\* it, the differ only sees whether two of them are equal
Payloads == {"arm", "camera"}

Configs == [net : 0..MaxNet, comp : Payloads]

\* what the watcher can deliver: a configuration that processes, or one that does not
Candidates == [net : 0..MaxNet, comp : Payloads, bad : {FALSE}]
              \cup {[net |-> 0, comp |-> "arm", bad |-> TRUE]}

Intervals == 1..MaxInterval

\* an optional value is the empty sequence or a one-element sequence
Opt(S) == {<<>>} \cup {<<x>> : x \in S}

VARIABLES
    mainPc,           \* position of serveWeb's own goroutine
    supPc,            \* position of the supervisor goroutine (lines 235-278)
    rcPc,             \* position of the restart-checker goroutine (lines 177-205)
    ctxDone,          \* the cancellable context of line 151 is done
    rcCancelled,      \* the restart checker has called cancel() (history)
    oldCfg,           \* baseline for the next diff (line 234)
    robot,            \* myRobot: "none", "open" or "closed"
    watcher,          \* the config watcher: "none", "open" or "closed"
    rpcDialer,        \* the cached dialer: "open" or "closed"
    onWatchDone,      \* the onWatchDone channel is closed
    webUp,            \* the network-facing service is running
    cfg,              \* candidate taken from watcher.Config() (line 245)
    processedConfig,  \* its processed form (line 246)
    diff,             \* the diff of line 254
    cycle,            \* history of the iteration in progress or just ended
    restartInterval,  \* line 185
    waited,           \* duration of the wait that preceded the pending check
    lastOk,           \* interval returned by the last successful check (0: none)
    lastCheck,        \* outcome of the last needsRestart call (history)
    revealSensitiveConfigDiffs,  \* argsParsed.revealSensitiveConfigDiffs
    registry,         \* the registered attribute-map converters
    lastRegister,     \* the last registration call and how it ended
    input,            \* the configuration document handed to FromReader
    validated,        \* what FromReader returned for it
    attributes,       \* the AttributeMap handed to TransformAttributeMapToStruct
    dest,             \* the destination struct before the conversion
    transformed,      \* what TransformAttributeMapToStruct returned
    mdHeap,           \* the metadata maps allocated so far, by reference
    mdValue,          \* ctx.Value(MetadataContextKey) of the caller's context
    md,               \* the map the last ContextWithMetadata call returned
    Images,           \* imageSource.Images
    idx,              \* imageSource.idx
    reads,            \* what the Read calls so far returned (history)
    reassigned,       \* Images has been assigned to since the source was made
    parallelDownloads,  \* binaryData's argument, then its effective value
    matching,         \* how many binary data the server has for the filter
    last,             \* getMatchingBinaryIDs: how many of them were returned so far
    page,             \* ids of the last response still to be sent on ids
    ids,              \* the buffer of channel ids
    idsClosed,        \* ids has been closed
    errs,             \* the buffer of channel errs
    ctxErr,           \* binaryData's ctx is cancelled (ctx.Err() != nil)
    wg,               \* the counter of wg
    fetchPc,          \* where the id-fetching goroutine is
    batchPc,          \* where the batching goroutine is
    batchI,           \* i of the batching loop
    done,             \* done of the batching goroutine
    downloads,        \* where the download goroutine of each id is
    started,          \* the ids passed to downloadBinary, in order (history)
    binPc,            \* where binaryData itself is
    binResult,        \* what binaryData returned
    fileExt,          \* the file extension in the metadata of the datum
    count,            \* count of downloadBinary's retry loop
    attempts,         \* how each BinaryDataByIDs call so far ended (history)
    dlErr,            \* err of downloadBinary
    dlPc,             \* where downloadBinary is
    files,            \* the files downloadBinary has created
    dlResult          \* what downloadBinary returned

\* the state of the packages around serveWeb: no step of serveWeb touches it
registryVars  == <<registry, lastRegister>>
validateVars  == <<input, validated>>
transformVars == <<attributes, dest, transformed>>
metadataVars  == <<mdHeap, mdValue, md>>
imageVars     == <<Images, idx, reads, reassigned>>
binaryVars    == <<parallelDownloads, matching, last, page, ids, idsClosed, errs,
                   ctxErr, wg, fetchPc, batchPc, batchI, done, downloads,
                   started, binPc, binResult>>
downloadVars  == <<fileExt, count, attempts, dlErr, dlPc, files, dlResult>>

libVars == <<registryVars, validateVars, transformVars, metadataVars,
             imageVars, binaryVars, downloadVars>>

\* what no step of serveWeb changes: the parsed arguments and the package state
staticVars == <<revealSensitiveConfigDiffs, libVars>>


serveVars == <<mainPc, supPc, rcPc, ctxDone, rcCancelled, oldCfg, robot,
               watcher, rpcDialer, onWatchDone, webUp, cfg, processedConfig, diff,
               cycle, restartInterval, waited, lastOk, lastCheck>>

vars == <<serveVars, staticVars>>

\* what the steps of one library leave alone
registryFrame  == <<serveVars, revealSensitiveConfigDiffs,
                    validateVars, transformVars, metadataVars,
                    imageVars, binaryVars, downloadVars>>
validateFrame  == <<serveVars, revealSensitiveConfigDiffs,
                    registryVars, transformVars, metadataVars,
                    imageVars, binaryVars, downloadVars>>
transformFrame == <<serveVars, revealSensitiveConfigDiffs,
                    registryVars, validateVars, metadataVars,
                    imageVars, binaryVars, downloadVars>>
metadataFrame  == <<serveVars, revealSensitiveConfigDiffs,
                    registryVars, validateVars, transformVars,
                    imageVars, binaryVars, downloadVars>>
imageFrame     == <<serveVars, revealSensitiveConfigDiffs,
                    registryVars, validateVars, transformVars,
                    metadataVars, binaryVars, downloadVars>>
binaryFrame    == <<serveVars, revealSensitiveConfigDiffs,
                    registryVars, validateVars, transformVars,
                    metadataVars, imageVars, downloadVars>>
downloadFrame  == <<serveVars, revealSensitiveConfigDiffs,
                    registryVars, validateVars, transformVars,
                    metadataVars, imageVars, binaryVars>>

mainVars == <<mainPc, robot, watcher, rpcDialer>>
supVars  == <<supPc, oldCfg, cfg, processedConfig, diff, cycle, onWatchDone>>
rcVars   == <<rcPc, restartInterval, waited, lastOk, lastCheck>>
ctxVars  == <<ctxDone, rcCancelled>>

\* ------------------------------------------------------------------ helpers
\* cancel() of line 151 (idempotent), and whether the restart checker called it
Cancel(who) ==
    /\ ctxDone' = TRUE
    /\ rcCancelled' = (rcCancelled \/ who = "restartCheck")

\* config.DiffConfigs: the network-equal flag compares the network settings,
\* the modified set names the resources whose payload differs (the model has one
\* resource, "comp"), and revealSensitive decides only how the rendering shows
\* secret-bearing fields
DiffConfigs(left, right, revealSensitive) ==
    [NetworkEqual |-> left.net = right.net,
     Modified     |-> IF left.comp = right.comp THEN {} ELSE {"comp"},
     PrettyDiff   |-> IF revealSensitive THEN "verbatim" ELSE "redacted"]

\* the supervisor's processConfig closure (lines 159-169)
processConfig(in) == IF in.bad THEN <<>> ELSE <<[net |-> in.net, comp |-> in.comp]>>

\* one more collaborator call in the cycle's history
Logged(op, res) == [cycle EXCEPT !.calls = Append(@, <<op, res>>)]

NoCycle == [cand |-> <<>>, old |-> <<>>, calls |-> <<>>]

\* `continue` / end of the loop body: the iteration's locals go out of scope
EndIteration ==
    /\ supPc' = "top"
    /\ cfg' = <<>>
    /\ processedConfig' = <<>>
    /\ diff' = <<>>

\* ------------------------------------------------------------------ initial state
\* the config package before any call into it
RegistryIdle ==
    /\ registry = {}
    /\ lastRegister = <<>>

ValidateIdle ==
    /\ input = <<>>
    /\ validated = <<>>

TransformIdle ==
    /\ attributes = <<>>
    /\ dest = <<>>
    /\ transformed = <<>>

\* context.Background(): nothing under MetadataContextKey, no map allocated
MetadataIdle ==
    /\ mdHeap = <<>>
    /\ mdValue = [kind |-> "nil", ref |-> 0]
    /\ md = 0

\* no image source has been made
ImageSourceIdle ==
    /\ Images = <<>>
    /\ idx = 0
    /\ reads = <<>>
    /\ reassigned = FALSE

\* binaryData has not been called
BinaryDataIdle ==
    /\ parallelDownloads = 0
    /\ matching = 0
    /\ last = 0
    /\ page = <<>>
    /\ ids = <<>>
    /\ idsClosed = FALSE
    /\ errs = <<>>
    /\ ctxErr = FALSE
    /\ wg = 0
    /\ fetchPc = "notStarted"
    /\ batchPc = "notStarted"
    /\ batchI = 0
    /\ done = FALSE
    /\ downloads = <<>>
    /\ started = <<>>
    /\ binPc = "notCalled"
    /\ binResult = "none"

\* downloadBinary has not been called
DownloadIdle ==
    /\ fileExt = ""
    /\ count = 0
    /\ attempts = <<>>
    /\ dlErr = FALSE
    /\ dlPc = "notCalled"
    /\ files = {}
    /\ dlResult = "none"

LibIdle ==
    /\ RegistryIdle /\ ValidateIdle /\ TransformIdle
    /\ MetadataIdle /\ ImageSourceIdle /\ BinaryDataIdle
    /\ DownloadIdle

\* serveWeb has processed the initial configuration (line 171) and, when it
\* has a cloud section, has launched the restart checker (line 177)
Init ==
    /\ mainPc = "newRobot"
    /\ supPc = "notStarted"
    /\ rcPc \in {"off", "new"}
    /\ ctxDone = FALSE
    /\ rcCancelled = FALSE
    /\ oldCfg \in Configs
    /\ robot = "none"
    /\ watcher = "none"
    /\ rpcDialer = "open"
    /\ onWatchDone = FALSE
    /\ webUp = FALSE
    /\ cfg = <<>>
    /\ processedConfig = <<>>
    /\ diff = <<>>
    /\ cycle = NoCycle
    /\ restartInterval = defaultNeedsRestartCheckInterval
    /\ waited = 0
    /\ lastOk = 0
    /\ lastCheck = "none"
    /\ revealSensitiveConfigDiffs \in BOOLEAN
    /\ LibIdle

\* ------------------------------------------------------------------ serveWeb, main goroutine
\* robotimpl.New (lines 217-220)
MainNewRobot ==
    /\ mainPc = "newRobot"
    /\ \E ok \in BOOLEAN :
        IF ok THEN robot' = "open" /\ mainPc' = "newWatcher"
        ELSE robot' = robot /\ mainPc' = "closeDialer"
    /\ UNCHANGED <<watcher, rpcDialer, webUp>>
    /\ UNCHANGED <<supVars, rcVars, ctxVars>>
    /\ UNCHANGED staticVars

\* config.NewWatcher (lines 226-229)
MainNewWatcher ==
    /\ mainPc = "newWatcher"
    /\ \E ok \in BOOLEAN :
        IF ok THEN watcher' = "open" /\ mainPc' = "startSupervisor"
        ELSE watcher' = watcher /\ mainPc' = "closeRobot"
    /\ UNCHANGED <<robot, rpcDialer, webUp>>
    /\ UNCHANGED <<supVars, rcVars, ctxVars>>
    /\ UNCHANGED staticVars

\* utils.ManagedGo (line 235): the supervisor goroutine starts
MainStartSupervisor ==
    /\ mainPc = "startSupervisor"
    /\ mainPc' = "runWeb"
    /\ supPc' = "top"
    /\ UNCHANGED <<robot, watcher, rpcDialer, webUp>>
    /\ UNCHANGED <<oldCfg, cfg, processedConfig, diff, cycle, onWatchDone>>
    /\ UNCHANGED <<rcVars, ctxVars>>
    /\ UNCHANGED staticVars

\* web.RunWeb (line 285) starts the web service, or fails and returns
MainRunWeb ==
    /\ mainPc = "runWeb"
    /\ \E ok \in BOOLEAN :
        IF ok THEN webUp' = TRUE /\ mainPc' = "serving"
        ELSE webUp' = webUp /\ mainPc' = "deferCancel"
    /\ UNCHANGED <<robot, watcher, rpcDialer>>
    /\ UNCHANGED <<supVars, rcVars, ctxVars>>
    /\ UNCHANGED staticVars

\* web.RunWeb returns early with an error of the web service
MainRunWebError ==
    /\ mainPc = "serving"
    /\ ~ctxDone
    /\ mainPc' = "deferCancel"
    /\ UNCHANGED <<robot, watcher, rpcDialer, webUp>>
    /\ UNCHANGED <<supVars, rcVars, ctxVars>>
    /\ UNCHANGED staticVars

\* web.RunWeb returns once the context is done
MainRunWebReturn ==
    /\ mainPc = "serving"
    /\ ctxDone
    /\ mainPc' = "deferCancel"
    /\ UNCHANGED <<robot, watcher, rpcDialer, webUp>>
    /\ UNCHANGED <<supVars, rcVars, ctxVars>>
    /\ UNCHANGED staticVars

\* defer cancel() (line 282)
MainDeferCancel ==
    /\ mainPc = "deferCancel"
    /\ Cancel("serveWeb")
    /\ mainPc' = "waitDone"
    /\ UNCHANGED <<robot, watcher, rpcDialer, webUp>>
    /\ UNCHANGED <<supVars, rcVars>>
    /\ UNCHANGED staticVars

\* MainWaitDone without the receive from onWatchDone: the clean-up goes on
\* while the supervisor goroutine may still be running
MainWaitDone_NoWait ==
    /\ mainPc = "waitDone"
    /\ mainPc' = "closeWatcher"
    /\ UNCHANGED <<robot, watcher, rpcDialer, webUp>>
    /\ UNCHANGED <<supVars, rcVars, ctxVars>>
    /\ UNCHANGED staticVars

\* defer <-onWatchDone (lines 279-281)
MainWaitDone ==
    /\ mainPc = "waitDone"
    /\ onWatchDone
    /\ mainPc' = "closeWatcher"
    /\ UNCHANGED <<robot, watcher, rpcDialer, webUp>>
    /\ UNCHANGED <<supVars, rcVars, ctxVars>>
    /\ UNCHANGED staticVars

\* defer utils.TryClose(ctx, watcher) (lines 230-232)
MainCloseWatcher ==
    /\ mainPc = "closeWatcher"
    /\ watcher' = "closed"
    /\ mainPc' = "closeRobot"
    /\ UNCHANGED <<robot, rpcDialer, webUp>>
    /\ UNCHANGED <<supVars, rcVars, ctxVars>>
    /\ UNCHANGED staticVars

\* defer myRobot.Close (lines 221-223)
MainCloseRobot ==
    /\ mainPc = "closeRobot"
    /\ robot' = "closed"
    /\ mainPc' = "closeDialer"
    /\ UNCHANGED <<watcher, rpcDialer, webUp>>
    /\ UNCHANGED <<supVars, rcVars, ctxVars>>
    /\ UNCHANGED staticVars

\* defer rpcDialer.Close (lines 154-156)
MainCloseDialer ==
    /\ mainPc = "closeDialer"
    /\ rpcDialer' = "closed"
    /\ mainPc' = "cancel"
    /\ UNCHANGED <<robot, watcher, webUp>>
    /\ UNCHANGED <<supVars, rcVars, ctxVars>>
    /\ UNCHANGED staticVars

\* defer cancel() (line 152), then serveWeb returns
MainCancel ==
    /\ mainPc = "cancel"
    /\ Cancel("serveWeb")
    /\ mainPc' = "returned"
    /\ UNCHANGED <<robot, watcher, rpcDialer, webUp>>
    /\ UNCHANGED <<supVars, rcVars>>
    /\ UNCHANGED staticVars

\* the caller's context (the parent of line 151) is cancelled
ParentCancel ==
    /\ ~ctxDone
    /\ mainPc # "returned"
    /\ Cancel("parent")
    /\ UNCHANGED <<mainVars, webUp, supVars, rcVars>>
    /\ UNCHANGED staticVars

\* serveWeb's steps that are bound to happen once they can
MainStep ==
    \/ MainNewRobot
    \/ MainNewWatcher
    \/ MainStartSupervisor
    \/ MainRunWeb
    \/ MainRunWebReturn
    \/ MainDeferCancel
    \/ MainWaitDone
    \/ MainCloseWatcher
    \/ MainCloseRobot
    \/ MainCloseDialer
    \/ MainCancel

\* ------------------------------------------------------------------ supervisor goroutine
\* SupTop without the check of ctx.Done(): the loop goes on to the blocking
\* select whatever the context's state
SupTop_NoDoneCheck ==
    /\ supPc = "top"
    /\ supPc' = "select"
    /\ cycle' = NoCycle
    /\ UNCHANGED <<oldCfg, cfg, processedConfig, diff, onWatchDone>>
    /\ UNCHANGED <<mainVars, webUp, rcVars, ctxVars>>
    /\ UNCHANGED staticVars

\* non-blocking check of ctx.Done() at the head of the loop (lines 237-241)
SupTop ==
    /\ supPc = "top"
    /\ supPc' = IF ctxDone THEN "returned" ELSE "select"
    /\ cycle' = NoCycle
    /\ UNCHANGED <<oldCfg, cfg, processedConfig, diff, onWatchDone>>
    /\ UNCHANGED <<mainVars, webUp, rcVars, ctxVars>>
    /\ UNCHANGED staticVars

\* SupSelectDone with the ctx.Done() case left out of the blocking select
SupSelectDone_Missing ==
    /\ supPc = "select"
    /\ FALSE
    /\ UNCHANGED vars

\* blocking select, case <-ctx.Done() (lines 242-244)
SupSelectDone ==
    /\ supPc = "select"
    /\ ctxDone
    /\ supPc' = "returned"
    /\ UNCHANGED <<oldCfg, cfg, processedConfig, diff, cycle, onWatchDone>>
    /\ UNCHANGED <<mainVars, webUp, rcVars, ctxVars>>
    /\ UNCHANGED staticVars

\* SupRecv taking the next candidate while a cycle is still in progress
SupRecv_AnyTime ==
    /\ supPc \in {"select", "reconfigure", "diff", "stopWeb", "webOptions", "startWeb"}
    /\ \E c \in Candidates :
        /\ cfg' = <<c>>
        /\ cycle' = [cand |-> <<c>>, old |-> <<oldCfg>>, calls |-> <<>>]
    /\ supPc' = "process"
    /\ UNCHANGED <<oldCfg, processedConfig, diff, onWatchDone>>
    /\ UNCHANGED <<mainVars, webUp, rcVars, ctxVars>>
    /\ UNCHANGED staticVars

\* blocking select, case cfg := <-watcher.Config() (line 245); when both
\* cases are ready the runtime picks either
SupRecv ==
    /\ supPc = "select"
    /\ \E c \in Candidates :
        /\ cfg' = <<c>>
        /\ cycle' = [cand |-> <<c>>, old |-> <<oldCfg>>, calls |-> <<>>]
    /\ supPc' = "process"
    /\ UNCHANGED <<oldCfg, processedConfig, diff, onWatchDone>>
    /\ UNCHANGED <<mainVars, webUp, rcVars, ctxVars>>
    /\ UNCHANGED staticVars

\* SupProcess without the `continue`: a candidate that failed processing is
\* carried on into the cycle
SupProcess_NoContinue ==
    /\ supPc = "process"
    /\ cycle' = Logged("processConfig", IF processConfig(cfg[1]) = <<>> THEN "err" ELSE "ok")
    /\ processedConfig' = <<[net |-> cfg[1].net, comp |-> cfg[1].comp]>>
    /\ supPc' = "reconfigure"
    /\ UNCHANGED <<cfg, diff>>
    /\ UNCHANGED <<oldCfg, onWatchDone>>
    /\ UNCHANGED <<mainVars, webUp, rcVars, ctxVars>>
    /\ UNCHANGED staticVars

\* processConfig(cfg), and `continue` on error (lines 246-250)
SupProcess ==
    /\ supPc = "process"
    /\ LET out == processConfig(cfg[1]) IN
        IF out = <<>>
        THEN /\ cycle' = Logged("processConfig", "err")
             /\ EndIteration
        ELSE /\ cycle' = Logged("processConfig", "ok")
             /\ processedConfig' = out
             /\ supPc' = "reconfigure"
             /\ UNCHANGED <<cfg, diff>>
    /\ UNCHANGED <<oldCfg, onWatchDone>>
    /\ UNCHANGED <<mainVars, webUp, rcVars, ctxVars>>
    /\ UNCHANGED staticVars

\* myRobot.Reconfigure(ctx, processedConfig) (line 251): it returns nothing;
\* the call is what the history keeps of it
SupReconfigure ==
    /\ supPc = "reconfigure"
    /\ cycle' = Logged("Reconfigure", "done")
    /\ supPc' = "diff"
    /\ UNCHANGED <<oldCfg, cfg, processedConfig, diff, onWatchDone>>
    /\ UNCHANGED <<mainVars, webUp, rcVars, ctxVars>>
    /\ UNCHANGED staticVars

\* SupDiff with the test of diff.NetworkEqual negated: the web service is
\* restarted exactly when the network settings did not change
SupDiff_Inverted ==
    /\ supPc = "diff"
    /\ \E err \in BOOLEAN :
        IF err
        THEN /\ cycle' = Logged("DiffConfigs", "err")
             /\ EndIteration
        ELSE LET d == DiffConfigs(oldCfg, processedConfig[1], revealSensitiveConfigDiffs) IN
             /\ diff' = <<d>>
             /\ cycle' = Logged("DiffConfigs", IF d.NetworkEqual THEN "equal" ELSE "changed")
             /\ supPc' = IF d.NetworkEqual THEN "stopWeb" ELSE "commit"
             /\ UNCHANGED <<cfg, processedConfig>>
    /\ UNCHANGED <<oldCfg, onWatchDone>>
    /\ UNCHANGED <<mainVars, webUp, rcVars, ctxVars>>
    /\ UNCHANGED staticVars

\* SupDiff with the restart skipped whenever sensitive diffs are revealed
SupDiff_FlagDecides ==
    /\ supPc = "diff"
    /\ \E err \in BOOLEAN :
        IF err
        THEN /\ cycle' = Logged("DiffConfigs", "err")
             /\ EndIteration
        ELSE LET d == DiffConfigs(oldCfg, processedConfig[1], revealSensitiveConfigDiffs) IN
             /\ diff' = <<d>>
             /\ cycle' = Logged("DiffConfigs", IF d.NetworkEqual THEN "equal" ELSE "changed")
             /\ supPc' = IF d.NetworkEqual \/ revealSensitiveConfigDiffs
                         THEN "commit" ELSE "stopWeb"
             /\ UNCHANGED <<cfg, processedConfig>>
    /\ UNCHANGED <<oldCfg, onWatchDone>>
    /\ UNCHANGED <<mainVars, webUp, rcVars, ctxVars>>
    /\ UNCHANGED staticVars

\* SupDiff with the test of diff.NetworkEqual dropped: the web service is
\* restarted in every cycle
SupDiff_AlwaysRestart ==
    /\ supPc = "diff"
    /\ \E err \in BOOLEAN :
        IF err
        THEN /\ cycle' = Logged("DiffConfigs", "err")
             /\ EndIteration
        ELSE LET d == DiffConfigs(oldCfg, processedConfig[1], revealSensitiveConfigDiffs) IN
             /\ diff' = <<d>>
             /\ cycle' = Logged("DiffConfigs", IF d.NetworkEqual THEN "equal" ELSE "changed")
             /\ supPc' = "stopWeb"
             /\ UNCHANGED <<cfg, processedConfig>>
    /\ UNCHANGED <<oldCfg, onWatchDone>>
    /\ UNCHANGED <<mainVars, webUp, rcVars, ctxVars>>
    /\ UNCHANGED staticVars

\* config.DiffConfigs(*oldCfg, *processedConfig, ...) and the test of
\* diff.NetworkEqual (lines 254-259)
SupDiff ==
    /\ supPc = "diff"
    /\ \E err \in BOOLEAN :
        IF err
        THEN /\ cycle' = Logged("DiffConfigs", "err")
             /\ EndIteration
        ELSE LET d == DiffConfigs(oldCfg, processedConfig[1], revealSensitiveConfigDiffs) IN
             /\ diff' = <<d>>
             /\ cycle' = Logged("DiffConfigs", IF d.NetworkEqual THEN "equal" ELSE "changed")
             /\ supPc' = IF d.NetworkEqual THEN "commit" ELSE "stopWeb"
             /\ UNCHANGED <<cfg, processedConfig>>
    /\ UNCHANGED <<oldCfg, onWatchDone>>
    /\ UNCHANGED <<mainVars, webUp, rcVars, ctxVars>>
    /\ UNCHANGED staticVars

\* myRobot.StopWeb() (lines 260-263)
SupStopWeb ==
    /\ supPc = "stopWeb"
    /\ \E ok \in BOOLEAN :
        IF ok
        THEN /\ webUp' = FALSE
             /\ cycle' = Logged("StopWeb", "ok")
             /\ supPc' = "webOptions"
             /\ UNCHANGED <<cfg, processedConfig, diff>>
        ELSE /\ webUp' = webUp
             /\ cycle' = Logged("StopWeb", "err")
             /\ EndIteration
    /\ UNCHANGED <<oldCfg, onWatchDone>>
    /\ UNCHANGED <<mainVars, rcVars, ctxVars>>
    /\ UNCHANGED staticVars

\* SupWebOptions without the `continue`: StartWeb is called although the web
\* options could not be created
SupWebOptions_NoContinue ==
    /\ supPc = "webOptions"
    /\ \E ok \in BOOLEAN :
        cycle' = Logged("createWebOptions", IF ok THEN "ok" ELSE "err")
    /\ supPc' = "startWeb"
    /\ UNCHANGED <<cfg, processedConfig, diff>>
    /\ UNCHANGED <<oldCfg, onWatchDone>>
    /\ UNCHANGED <<mainVars, webUp, rcVars, ctxVars>>
    /\ UNCHANGED staticVars

\* createWebOptions(processedConfig, ...) (lines 264-268, 125-148)
SupWebOptions ==
    /\ supPc = "webOptions"
    /\ \E ok \in BOOLEAN :
        IF ok
        THEN /\ cycle' = Logged("createWebOptions", "ok")
             /\ supPc' = "startWeb"
             /\ UNCHANGED <<cfg, processedConfig, diff>>
        ELSE /\ cycle' = Logged("createWebOptions", "err")
             /\ EndIteration
    /\ UNCHANGED <<oldCfg, onWatchDone>>
    /\ UNCHANGED <<mainVars, webUp, rcVars, ctxVars>>
    /\ UNCHANGED staticVars

\* myRobot.StartWeb(ctx, options): an error is logged and the cycle goes on
\* (lines 269-271)
SupStartWeb ==
    /\ supPc = "startWeb"
    /\ \E ok \in BOOLEAN :
        /\ webUp' = IF ok THEN TRUE ELSE webUp
        /\ cycle' = Logged("StartWeb", IF ok THEN "ok" ELSE "err")
    /\ supPc' = "commit"
    /\ UNCHANGED <<oldCfg, cfg, processedConfig, diff, onWatchDone>>
    /\ UNCHANGED <<mainVars, rcVars, ctxVars>>
    /\ UNCHANGED staticVars

\* oldCfg = processedConfig (line 273), end of the loop body
SupCommit ==
    /\ supPc = "commit"
    /\ oldCfg' = processedConfig[1]
    /\ EndIteration
    /\ UNCHANGED <<cycle, onWatchDone>>
    /\ UNCHANGED <<mainVars, webUp, rcVars, ctxVars>>
    /\ UNCHANGED staticVars

\* the goroutine's function has returned: ManagedGo closes onWatchDone
\* (lines 276-278)
SupOnComplete ==
    /\ supPc = "returned"
    /\ onWatchDone' = TRUE
    /\ supPc' = "done"
    /\ UNCHANGED <<oldCfg, cfg, processedConfig, diff, cycle>>
    /\ UNCHANGED <<mainVars, webUp, rcVars, ctxVars>>
    /\ UNCHANGED staticVars

\* the supervisor's own steps; taking a candidate needs the watcher to offer one
SupStep ==
    \/ SupTop
    \/ SupSelectDone
    \/ SupProcess
    \/ SupReconfigure
    \/ SupDiff
    \/ SupStopWeb
    \/ SupWebOptions
    \/ SupStartWeb
    \/ SupCommit
    \/ SupOnComplete

\* ------------------------------------------------------------------ restart checker goroutine
\* newRestartChecker; on error logger.Panicw panics, so the cancel() after
\* it is never reached (lines 178-185)
RCNew ==
    /\ rcPc = "new"
    /\ \E ok \in BOOLEAN : rcPc' = IF ok THEN "top" ELSE "panicked"
    /\ UNCHANGED <<restartInterval, waited, lastOk, lastCheck>>
    /\ UNCHANGED <<mainVars, webUp, supVars, ctxVars>>
    /\ UNCHANGED staticVars

\* utils.SelectContextOrWait (line 188): an already-done context returns false
RCTop ==
    /\ rcPc = "top"
    /\ rcPc' = IF ctxDone THEN "done" ELSE "wait"
    /\ UNCHANGED <<restartInterval, waited, lastOk, lastCheck>>
    /\ UNCHANGED <<mainVars, webUp, supVars, ctxVars>>
    /\ UNCHANGED staticVars

\* utils.SelectContextOrWait: the context is done during the wait
RCWaitDone ==
    /\ rcPc = "wait"
    /\ ctxDone
    /\ rcPc' = "done"
    /\ UNCHANGED <<restartInterval, waited, lastOk, lastCheck>>
    /\ UNCHANGED <<mainVars, webUp, supVars, ctxVars>>
    /\ UNCHANGED staticVars

\* utils.SelectContextOrWait: restartInterval has elapsed
RCWaitElapsed ==
    /\ rcPc = "wait"
    /\ waited' = restartInterval
    /\ rcPc' = "check"
    /\ UNCHANGED <<restartInterval, lastOk, lastCheck>>
    /\ UNCHANGED <<mainVars, webUp, supVars, ctxVars>>
    /\ UNCHANGED staticVars

\* RCCheckFailed treating a failed check as a restart request
RCCheckFailed_Cancels ==
    /\ rcPc = "check"
    /\ lastCheck' = "err"
    /\ waited' = 0
    /\ Cancel("restartCheck")
    /\ rcPc' = "done"
    /\ UNCHANGED <<restartInterval, lastOk>>
    /\ UNCHANGED <<mainVars, webUp, supVars>>
    /\ UNCHANGED staticVars

\* RCCheckFailed assigning restartInterval before looking at the error, so
\* that a failed check falls back to the baseline interval
RCCheckFailed_ResetsInterval ==
    /\ rcPc = "check"
    /\ lastCheck' = "err"
    /\ waited' = 0
    /\ rcPc' = "top"
    /\ restartInterval' = defaultNeedsRestartCheckInterval
    /\ UNCHANGED lastOk
    /\ UNCHANGED <<mainVars, webUp, supVars, ctxVars>>
    /\ UNCHANGED staticVars

\* needsRestart returned an error: logged, `continue` (lines 192-196)
RCCheckFailed ==
    /\ rcPc = "check"
    /\ lastCheck' = "err"
    /\ waited' = 0
    /\ rcPc' = "top"
    /\ UNCHANGED <<restartInterval, lastOk>>
    /\ UNCHANGED <<mainVars, webUp, supVars, ctxVars>>
    /\ UNCHANGED staticVars

\* RCCheckOk returning on mustRestart without calling cancel()
RCCheckOk_NoCancel ==
    /\ rcPc = "check"
    /\ \E mustRestart \in BOOLEAN, newRestartInterval \in Intervals :
        /\ restartInterval' = newRestartInterval
        /\ lastOk' = newRestartInterval
        /\ lastCheck' = IF mustRestart THEN "mustRestart" ELSE "ok"
        /\ rcPc' = IF mustRestart THEN "done" ELSE "top"
    /\ waited' = 0
    /\ UNCHANGED <<mainVars, webUp, supVars, ctxVars>>
    /\ UNCHANGED staticVars

\* needsRestart returned (mustRestart, newRestartInterval, nil) (lines 198-203)
RCCheckOk ==
    /\ rcPc = "check"
    /\ \E mustRestart \in BOOLEAN, newRestartInterval \in Intervals :
        /\ restartInterval' = newRestartInterval
        /\ lastOk' = newRestartInterval
        /\ lastCheck' = IF mustRestart THEN "mustRestart" ELSE "ok"
        /\ IF mustRestart
           THEN Cancel("restartCheck") /\ rcPc' = "done"
           ELSE UNCHANGED ctxVars /\ rcPc' = "top"
    /\ waited' = 0
    /\ UNCHANGED <<mainVars, webUp, supVars>>
    /\ UNCHANGED staticVars

RCNext ==
    \/ RCNew
    \/ RCTop
    \/ RCWaitDone
    \/ RCWaitElapsed
    \/ RCCheckFailed
    \/ RCCheckOk

\* ------------------------------------------------------------------ specifications
Next ==
    \/ MainStep
    \/ MainRunWebError
    \/ ParentCancel
    \/ SupStep
    \/ SupRecv
    \/ RCNext

Spec == Init /\ [][Next]_vars

\* the supervisor and serveWeb's own goroutine are scheduled whenever they can
\* take a step, and the collaborator calls they make return (web.RunWeb once
\* the context is done); nothing obliges the watcher to offer a candidate,
\* the caller to cancel, or the control plane to answer
FairSpec == Spec /\ WF_vars(SupStep) /\ WF_vars(MainStep)

TypeOK ==
    /\ oldCfg \in Configs
    /\ cfg \in Opt(Candidates)
    /\ processedConfig \in Opt(Configs)
    /\ restartInterval \in Intervals
    /\ ctxDone \in BOOLEAN

\* ------------------------------------------------------------------ converter registry
\* the component types, models and service types that drivers register under
ComponentTypes == {"somecomponent", "arm"}
Models == {"somemodel", "wx250s"}
ServiceTypes == {"someservice", "otherservice"}

\* the converter functions; the final argument of a registration call is nil
\* or a value
Converters == 1..MaxConv
FinalArgs == {"nil", "value"}

\* a component converter is keyed by (component type, model), a service
\* converter by its service type
ComponentKey(compType, model) == <<"component", compType, model>>
ServiceKey(svcType) == <<"service", svcType>>

Registered(key) == \E e \in registry : e.key = key

\* the final argument with its nil check left out
NilFinalArgPanics_Accepted(finalArg) == FALSE

\* a registration whose final argument is nil panics
NilFinalArgPanics(finalArg) == finalArg = "nil"

\* Register with the look-up of the key left out: a second registration of a
\* key is appended next to the first
Register_NoDuplicateCheck(key, conv, finalArg) ==
    LET panics == NilFinalArgPanics(finalArg) IN
    /\ registry' = IF panics THEN registry ELSE registry \cup {[key |-> key, conv |-> conv]}
    /\ lastRegister' = <<[key |-> key, conv |-> conv, finalArg |-> finalArg, panicked |-> panics]>>

\* what both registration functions do: panic on a nil final argument or on a
\* key that is already registered, else add the entry
Register(key, conv, finalArg) ==
    LET panics == NilFinalArgPanics(finalArg) \/ Registered(key) IN
    /\ registry' = IF panics THEN registry ELSE registry \cup {[key |-> key, conv |-> conv]}
    /\ lastRegister' = <<[key |-> key, conv |-> conv, finalArg |-> finalArg, panicked |-> panics]>>

\* the serveWeb goroutines before they start, with default arguments
ServeIdle ==
    /\ mainPc = "newRobot"
    /\ supPc = "notStarted"
    /\ rcPc = "off"
    /\ ctxDone = FALSE
    /\ rcCancelled = FALSE
    /\ oldCfg = [net |-> 0, comp |-> "arm"]
    /\ robot = "none"
    /\ watcher = "none"
    /\ rpcDialer = "open"
    /\ onWatchDone = FALSE
    /\ webUp = FALSE
    /\ cfg = <<>>
    /\ processedConfig = <<>>
    /\ diff = <<>>
    /\ cycle = NoCycle
    /\ restartInterval = defaultNeedsRestartCheckInterval
    /\ waited = 0
    /\ lastOk = 0
    /\ lastCheck = "none"
    /\ revealSensitiveConfigDiffs = FALSE

RegistryInit == ServeIdle /\ LibIdle

RegisterComponentAttributeMapConverter ==
    /\ \E compType \in ComponentTypes, model \in Models,
          conv \in Converters, finalArg \in FinalArgs :
            Register(ComponentKey(compType, model), conv, finalArg)
    /\ UNCHANGED registryFrame

RegisterServiceAttributeMapConverter ==
    /\ \E svcType \in ServiceTypes, conv \in Converters, finalArg \in FinalArgs :
            Register(ServiceKey(svcType), conv, finalArg)
    /\ UNCHANGED registryFrame

RegistryNext ==
    \/ RegisterComponentAttributeMapConverter
    \/ RegisterServiceAttributeMapConverter

\* registrations in any order, the panic of one recovered before the next
\* (as ShouldPanic does)
RegistrySpec == RegistryInit /\ [][RegistryNext]_vars

\* ------------------------------------------------------------------ configuration validation
\* the bind address applied when the document gives none
DefaultBindAddress == "localhost:8080"

\* all sequences over S of length at most n
RECURSIVE SeqsUpTo(_, _)
SeqsUpTo(S, n) ==
    IF n = 0 THEN {<<>>}
    ELSE LET shorter == SeqsUpTo(S, n - 1) IN
         shorter \cup {Append(q, x) : q \in shorter, x \in S}

\* what a document can hold: a cloud section with or without an id, a bind
\* address, components with or without a name, services
CloudSections == [id : {"", "some-id"}]
BindAddresses == {DefaultBindAddress, "0.0.0.0:9090"}
ComponentEntries == [name : {"", "foo"}, type : {"", "arm"}]
ServiceEntries == [name : {"web"}, type : {"someservice"}]

\* a JSON document; a section that is missing is the empty sequence, one that
\* is present is a one-element sequence
Documents ==
    [form       : {"json"},
     cloud      : Opt(CloudSections),
     bind       : Opt(BindAddresses),
     components : Opt(SeqsUpTo(ComponentEntries, MaxEntries)),
     services   : Opt(SeqsUpTo(ServiceEntries, 1))]

\* the input `{}`: every top-level section is missing
EmptyDocument ==
    [form |-> "json", cloud |-> <<>>, bind |-> <<>>, components |-> <<>>, services |-> <<>>]

\* inputs that are not a JSON document of the expected shape: the empty input
\* and `{"cloud": 1}`
Malformed == {[EmptyDocument EXCEPT !.form = f] : f \in {"truncated", "mistyped"}}

Inputs == Documents \cup Malformed

\* decoding the input
ParseError(doc) ==
    IF doc.form = "truncated" THEN <<[path |-> <<>>, text |-> <<"unexpected end">>]>>
    ELSE IF doc.form = "mistyped" THEN <<[path |-> <<>>, text |-> <<"unmarshal">>]>>
    ELSE <<>>

\* the error for a required field that is empty, annotated with its path
Required(path, field) == <<[path |-> path, text |-> <<field, "is required">>]>>

\* the cloud section's validation left out
CloudValidate_Skipped(cloud) == <<>>

\* a cloud section, if present, requires a non-empty id
CloudValidate(cloud) ==
    IF cloud # <<>> /\ cloud[1].id = "" THEN Required(<<"cloud">>, "id") ELSE <<>>

\* position (from 1) of the first entry without a name, 0 if every entry has one
FirstUnnamed(list) ==
    LET unnamed == {i \in 1..Len(list) : list[i].name = ""} IN
    IF unnamed = {} THEN 0 ELSE CHOOSE i \in unnamed : \A j \in unnamed : i <= j

\* ComponentsValidate annotating the error with the position counted from one
ComponentsValidate_OneBased(list) ==
    LET i == FirstUnnamed(list) IN
    IF i = 0 THEN <<>> ELSE Required(<<"components", i>>, "name")

\* every component requires a non-empty name; the error carries the list's
\* name and the zero-based index of the entry
ComponentsValidate(list) ==
    LET i == FirstUnnamed(list) IN
    IF i = 0 THEN <<>> ELSE Required(<<"components", i - 1>>, "name")

\* a section's entries, none if the section is missing
Entries(section) == IF section = <<>> THEN <<>> ELSE section[1]

\* Config.Validate: the first error aborts
Validate(doc) ==
    LET cloudErr == CloudValidate(doc.cloud) IN
    IF cloudErr # <<>> THEN cloudErr ELSE ComponentsValidate(Entries(doc.components))

\* NetworkSettings with the default-applied flag derived from the resulting
\* address instead of from the address being unset
NetworkSettings_FlagByValue(bind) ==
    [BindAddress           |-> IF bind = <<>> THEN DefaultBindAddress ELSE bind[1],
     BindAddressDefaultSet |-> (bind = <<>> \/ bind = <<DefaultBindAddress>>)]

\* the bind address defaults when unset, and the flag records that it did
NetworkSettings(bind) ==
    [BindAddress           |-> IF bind = <<>> THEN DefaultBindAddress ELSE bind[1],
     BindAddressDefaultSet |-> (bind = <<>>)]

\* config.FromReader: decode, validate, and only then hand out the model
FromReader(filePath, doc) ==
    LET err == IF ParseError(doc) # <<>> THEN ParseError(doc) ELSE Validate(doc) IN
    IF err # <<>>
    THEN [err |-> err, conf |-> <<>>]
    ELSE [err  |-> <<>>,
          conf |-> <<[ConfigFilePath |-> filePath,
                      Cloud          |-> doc.cloud,
                      Components     |-> Entries(doc.components),
                      Services       |-> Entries(doc.services),
                      Network        |-> NetworkSettings(doc.bind)]>>]

ValidateInit ==
    /\ ServeIdle
    /\ RegistryIdle
    /\ TransformIdle
    /\ MetadataIdle
    /\ ImageSourceIdle
    /\ BinaryDataIdle
    /\ DownloadIdle
    /\ input \in {<<doc>> : doc \in Inputs}
    /\ validated = <<>>

CallFromReader ==
    /\ validated = <<>>
    /\ validated' = <<FromReader("somepath", input[1])>>
    /\ UNCHANGED input
    /\ UNCHANGED validateFrame

ValidateNext == CallFromReader

\* FromReader applied once to any input
ValidateSpec == ValidateInit /\ [][ValidateNext]_vars

\* ------------------------------------------------------------------ attribute map to struct
\* attribute keys; the destination declares the fields a and b, both strings,
\* and a residual field
Keys == {"a", "b", "c", "d", "e"}
DeclaredFields == {"a", "b"}

\* a dynamically-typed attribute value
Values == [kind : {"string", "number"}, v : 1..MaxVal]
Strings == {x \in Values : x.kind = "string"}

\* maps from some of the keys in K to values in V
MapsOver(K, V) == UNION {[D -> V] : D \in SUBSET K}

AttributeMaps == MapsOver(Keys, Values)

EmptyMap == [k \in {} |-> 0]

\* keys a residual bucket can hold before the call: one that the attributes
\* may also carry, one that they never carry
PriorKeys == {"c", "x"}

\* a destination: its fields' prior values (the zero value is the empty
\* sequence), and its residual bucket, nil or a map, of either flavor
Destinations ==
    [flavor : {"string"}, A : {<<>>}, B : {<<>>},
     Attributes : Opt(MapsOver(PriorKeys, Strings))]
    \cup
    [flavor : {"AttributeMap"}, A : {<<>>}, B : {<<>>},
     Attributes : Opt(MapsOver(PriorKeys, Values))]

\* Unmatched with the keys bound to declared fields left in
Unmatched_IncludesBound(attrs) == DOMAIN attrs

\* the keys no declared field binds to
Unmatched(attrs) == DOMAIN attrs \ DeclaredFields

\* declared fields whose attribute is not of the field's type
Mismatched(attrs) ==
    {k \in DOMAIN attrs \cap DeclaredFields : attrs[k].kind # "string"}

\* Routed keeping only string values whatever the bucket's flavor
Routed_StringsOnly(flavor, attrs) ==
    {k \in Unmatched(attrs) : attrs[k].kind = "string"}

\* the unmatched keys that go into the residual bucket: all of them into an
\* AttributeMap bucket, those with a string value into a string-to-string one
Routed(flavor, attrs) ==
    IF flavor = "AttributeMap" THEN Unmatched(attrs)
    ELSE {k \in Unmatched(attrs) : attrs[k].kind = "string"}

\* Merge building the residual bucket afresh from the routed keys
Merge_Replaces(prior, attrs, keys) == [k \in keys |-> attrs[k]]

\* the bucket's prior entries, topped up with the routed attributes
Merge(prior, attrs, keys) ==
    [k \in DOMAIN prior \cup keys |-> IF k \in keys THEN attrs[k] ELSE prior[k]]

\* the entries of the residual bucket before the call; a nil bucket is made
\* an empty map
PriorEntries(bucket) == IF bucket = <<>> THEN EmptyMap ELSE bucket[1]

\* a declared field after the call: the attribute's value if there is one
Field(prior, attrs, k) == IF k \in DOMAIN attrs THEN <<attrs[k]>> ELSE prior

\* config.TransformAttributeMapToStruct(to, attributes)
TransformAttributeMapToStruct(to, attrs) ==
    IF Mismatched(attrs) # {}
    THEN [err |-> Mismatched(attrs), out |-> <<>>]
    ELSE [err |-> {},
          out |-> <<[flavor     |-> to.flavor,
                     A          |-> Field(to.A, attrs, "a"),
                     B          |-> Field(to.B, attrs, "b"),
                     Attributes |-> <<Merge(PriorEntries(to.Attributes), attrs,
                                            Routed(to.flavor, attrs))>>]>>]

TransformInit ==
    /\ ServeIdle
    /\ RegistryIdle
    /\ ValidateIdle
    /\ MetadataIdle
    /\ ImageSourceIdle
    /\ BinaryDataIdle
    /\ DownloadIdle
    /\ attributes \in {<<m>> : m \in AttributeMaps}
    /\ dest \in {<<d>> : d \in Destinations}
    /\ transformed = <<>>

CallTransform ==
    /\ transformed = <<>>
    /\ transformed' = <<TransformAttributeMapToStruct(dest[1], attributes[1])>>
    /\ UNCHANGED <<attributes, dest>>
    /\ UNCHANGED transformFrame

TransformNext == CallTransform

\* TransformAttributeMapToStruct applied once to any attributes and destination
TransformSpec == TransformInit /\ [][TransformNext]_vars

\* ------------------------------------------------------------------ context metadata
\* at most MaxMaps metadata maps are allocated in one run
MaxMaps == 2

\* the keys and values callers write into a metadata map
MdKeys == {"hello", "bye"}
MdValues == {"world", "moon"}

\* what ctx.Value(MetadataContextKey) can be: nil, a metadata map (by
\* reference), or something that is not a metadata map
NilValue == [kind |-> "nil", ref |-> 0]
StringValue == [kind |-> "string", ref |-> 0]
MapValue(r) == [kind |-> "map", ref |-> r]

\* the type assertion mdFromContext.(map[string][]string)
IsMetadata(value) == value.kind = "map"

\* ContextWithMetadata putting the map of the previous call back into a
\* context whose value is not a metadata map
ContextWithMetadata_ReusesLast ==
    /\ IF IsMetadata(mdValue)
       THEN /\ md' = mdValue.ref
            /\ UNCHANGED <<mdHeap, mdValue>>
       ELSE IF md # 0
       THEN /\ mdValue' = MapValue(md)
            /\ UNCHANGED <<mdHeap, md>>
       ELSE /\ Len(mdHeap) < MaxMaps
            /\ mdHeap' = Append(mdHeap, EmptyMap)
            /\ mdValue' = MapValue(Len(mdHeap) + 1)
            /\ md' = Len(mdHeap) + 1
    /\ UNCHANGED metadataFrame

\* ContextWithMetadata putting a copy of the map it returns into the context
ContextWithMetadata_StoresCopy ==
    /\ IF IsMetadata(mdValue)
       THEN /\ md' = mdValue.ref
            /\ UNCHANGED <<mdHeap, mdValue>>
       ELSE /\ Len(mdHeap) + 1 < MaxMaps
            /\ mdHeap' = Append(Append(mdHeap, EmptyMap), EmptyMap)
            /\ mdValue' = MapValue(Len(mdHeap) + 1)
            /\ md' = Len(mdHeap) + 2
    /\ UNCHANGED metadataFrame

\* ctx, md = ContextWithMetadata(ctx): the metadata map already in the
\* context, or else a new empty one, put into the returned context
ContextWithMetadata ==
    /\ IF IsMetadata(mdValue)
       THEN /\ md' = mdValue.ref
            /\ UNCHANGED <<mdHeap, mdValue>>
       ELSE /\ Len(mdHeap) < MaxMaps
            /\ mdHeap' = Append(mdHeap, EmptyMap)
            /\ mdValue' = MapValue(Len(mdHeap) + 1)
            /\ md' = Len(mdHeap) + 1
    /\ UNCHANGED metadataFrame

\* md[k] = v through the map the caller holds
WriteMetadata ==
    /\ md # 0
    /\ \E k \in MdKeys, v \in MdValues :
        mdHeap' = [mdHeap EXCEPT ![md] =
                      [x \in DOMAIN @ \cup {k} |-> IF x = k THEN v ELSE @[x]]]
    /\ UNCHANGED <<mdValue, md>>
    /\ UNCHANGED metadataFrame

\* ctx = context.WithValue(ctx, MetadataContextKey, someString)
OverwriteMetadataValue ==
    /\ mdValue # StringValue
    /\ mdValue' = StringValue
    /\ UNCHANGED <<mdHeap, md>>
    /\ UNCHANGED metadataFrame

MetadataInit ==
    /\ ServeIdle
    /\ RegistryIdle
    /\ ValidateIdle
    /\ TransformIdle
    /\ MetadataIdle
    /\ ImageSourceIdle
    /\ BinaryDataIdle
    /\ DownloadIdle

MetadataNext ==
    \/ ContextWithMetadata
    \/ WriteMetadata
    \/ OverwriteMetadataValue

\* a caller using its context's metadata in any order
MetadataSpec == MetadataInit /\ [][MetadataNext]_vars

\* ------------------------------------------------------------------ fake image source
\* an image source holds at most MaxImages images and is read at most
\* MaxReads times
MaxImages == 2
MaxReads == 4

\* the images, told apart by their colour
Colors == {"red", "blue"}
ImageLists == SeqsUpTo(Colors, MaxImages)

\* what Read returns: an image or nil, and always a nil error
ReadResult(img) == [img |-> img, err |-> "nil"]

\* &imageSource{Images: colors}
ImageSourceInit ==
    /\ ServeIdle
    /\ RegistryIdle
    /\ ValidateIdle
    /\ TransformIdle
    /\ MetadataIdle
    /\ BinaryDataIdle
    /\ DownloadIdle
    /\ Images \in ImageLists
    /\ idx = 0
    /\ reads = <<>>
    /\ reassigned = FALSE

\* Read without the increment of idx
Read_NoAdvance ==
    /\ Len(reads) < MaxReads
    /\ reads' = Append(reads, ReadResult(IF idx >= Len(Images) THEN <<>>
                                         ELSE <<Images[idx + 1]>>))
    /\ UNCHANGED <<Images, idx, reassigned>>
    /\ UNCHANGED imageFrame

\* imageSource.Read: the next image, or nil when none is left
Read ==
    /\ Len(reads) < MaxReads
    /\ IF idx >= Len(Images)
       THEN /\ reads' = Append(reads, ReadResult(<<>>))
            /\ idx' = idx
       ELSE /\ reads' = Append(reads, ReadResult(<<Images[idx + 1]>>))
            /\ idx' = idx + 1
    /\ UNCHANGED <<Images, reassigned>>
    /\ UNCHANGED imageFrame

\* imgSource.Images = ... between reads: idx is left where it was
AssignImages ==
    /\ \E new \in ImageLists : Images' = new
    /\ reassigned' = TRUE
    /\ UNCHANGED <<idx, reads>>
    /\ UNCHANGED imageFrame

ImageSourceNext == Read \/ AssignImages

ImageSourceSpec == ImageSourceInit /\ [][ImageSourceNext]_vars

\* ------------------------------------------------------------------ binaryData
MaxParallel == 2
MaxIds == 3

defaultParallelDownloads == 100
maxLimit == 100

\* the binary data matching the filter, named by their rank on the server
BinaryIDs == 1..matching

\* cap(ids) (line 217)
IdsCapacity == parallelDownloads

\* cap(errs) (line 220)
ErrsCapacity == 1 + parallelDownloads

\* limit of each BinaryDataByFilter request (lines 230-235)
Limit == IF parallelDownloads > maxLimit THEN maxLimit ELSE parallelDownloads

\* the download goroutines that have not called downloadWG.Done
InFlight == {id \in DOMAIN downloads : downloads[id] \in {"call", "sendErr", "cancel"}}

\* the ids n+1..m in order
Range(n, m) == [k \in 1..(m - n) |-> n + k]

\* c.binaryData(dst, filter, parallelDownloads) is called
BinaryDataInit ==
    /\ ServeIdle
    /\ RegistryIdle
    /\ ValidateIdle
    /\ TransformIdle
    /\ MetadataIdle
    /\ ImageSourceIdle
    /\ DownloadIdle
    /\ parallelDownloads \in 0..MaxParallel
    /\ matching \in 0..MaxIds
    /\ last = 0
    /\ page = <<>>
    /\ ids = <<>>
    /\ idsClosed = FALSE
    /\ errs = <<>>
    /\ ctxErr = FALSE
    /\ wg = 0
    /\ fetchPc = "notStarted"
    /\ batchPc = "notStarted"
    /\ batchI = 0
    /\ done = FALSE
    /\ downloads = [id \in BinaryIDs |-> "none"]
    /\ started = <<>>
    /\ binPc = "start"
    /\ binResult = "none"

\* ensureLoggedIn, makeDestinationDirs, the default of parallelDownloads, the
\* channels, the context and the two goroutines (lines 205-227, 243-244)
BinaryDataStart ==
    /\ binPc = "start"
    /\ \E ok \in BOOLEAN :
        IF ok
        THEN /\ parallelDownloads' = IF parallelDownloads = 0
                                     THEN defaultParallelDownloads
                                     ELSE parallelDownloads
             /\ wg' = 2
             /\ fetchPc' = "ctxErr"
             /\ batchPc' = "for"
             /\ binPc' = "wait"
             /\ binResult' = binResult
        ELSE /\ binPc' = "returned"
             /\ binResult' = "err"
             /\ UNCHANGED <<parallelDownloads, wg, fetchPc, batchPc>>
    /\ UNCHANGED <<matching, last, page, ids, idsClosed, errs, ctxErr, batchI,
                   done, downloads, started>>
    /\ UNCHANGED binaryFrame

\* getMatchingBinaryIDs: ctx.Err() at the head of its loop; on an error it
\* returns it and the deferred close(ids) runs (lines 306-310)
FetchCtxErr ==
    /\ fetchPc = "ctxErr"
    /\ IF ctxErr
       THEN idsClosed' = TRUE /\ fetchPc' = "sendErr"
       ELSE idsClosed' = idsClosed /\ fetchPc' = "query"
    /\ UNCHANGED <<parallelDownloads, matching, last, page, ids, errs, ctxErr, wg,
                   batchPc, batchI, done, downloads, started, binPc, binResult>>
    /\ UNCHANGED binaryFrame

\* client.BinaryDataByFilter: an error, an empty page (both return, and
\* close(ids) runs), or the next ids, at most Limit of them (lines 312-328)
FetchQuery ==
    /\ fetchPc = "query"
    /\ \E ok \in BOOLEAN :
        IF ~ok
        THEN /\ idsClosed' = TRUE
             /\ fetchPc' = "sendErr"
             /\ UNCHANGED <<last, page>>
        ELSE LET to == IF last + Limit > matching THEN matching ELSE last + Limit IN
             IF to = last
             THEN /\ idsClosed' = TRUE
                  /\ fetchPc' = "exit"
                  /\ UNCHANGED <<last, page>>
             ELSE /\ page' = Range(last, to)
                  /\ last' = to
                  /\ fetchPc' = "send"
                  /\ idsClosed' = idsClosed
    /\ UNCHANGED <<parallelDownloads, matching, ids, errs, ctxErr, wg,
                   batchPc, batchI, done, downloads, started, binPc, binResult>>
    /\ UNCHANGED binaryFrame

\* ids <- &datapb.BinaryID{...}: waits while the buffer is full (lines 330-337)
FetchSend ==
    /\ fetchPc = "send"
    /\ Len(ids) < IdsCapacity
    /\ ids' = Append(ids, Head(page))
    /\ page' = Tail(page)
    /\ fetchPc' = IF Tail(page) = <<>> THEN "ctxErr" ELSE "send"
    /\ UNCHANGED <<parallelDownloads, matching, last, idsClosed, errs, ctxErr, wg,
                   batchPc, batchI, done, downloads, started, binPc, binResult>>
    /\ UNCHANGED binaryFrame

\* errs <- err of the id-fetching goroutine (lines 236-237)
FetchSendErr ==
    /\ fetchPc = "sendErr"
    /\ Len(errs) < ErrsCapacity
    /\ errs' = Append(errs, "ids")
    /\ fetchPc' = "cancel"
    /\ UNCHANGED <<parallelDownloads, matching, last, page, ids, idsClosed, ctxErr,
                   wg, batchPc, batchI, done, downloads, started, binPc, binResult>>
    /\ UNCHANGED binaryFrame

\* cancel() of the id-fetching goroutine (line 238)
FetchCancel ==
    /\ fetchPc = "cancel"
    /\ ctxErr' = TRUE
    /\ fetchPc' = "exit"
    /\ UNCHANGED <<parallelDownloads, matching, last, page, ids, idsClosed, errs,
                   wg, batchPc, batchI, done, downloads, started, binPc, binResult>>
    /\ UNCHANGED binaryFrame

\* defer wg.Done() of the id-fetching goroutine (line 228)
FetchDone ==
    /\ fetchPc = "exit"
    /\ wg' = wg - 1
    /\ fetchPc' = "done"
    /\ UNCHANGED <<parallelDownloads, matching, last, page, ids, idsClosed, errs,
                   ctxErr, batchPc, batchI, done, downloads, started, binPc,
                   binResult>>
    /\ UNCHANGED binaryFrame

\* the head of the inner loop: i < parallelDownloads, then ctx.Err()
\* (lines 251-252)
BatchFor ==
    /\ batchPc = "for"
    /\ batchPc' = IF batchI >= parallelDownloads THEN "wait"
                  ELSE IF ctxErr THEN "sendErr"
                  ELSE "recv"
    /\ UNCHANGED <<parallelDownloads, matching, last, page, ids, idsClosed, errs,
                   ctxErr, wg, fetchPc, batchI, done, downloads, started, binPc,
                   binResult>>
    /\ UNCHANGED binaryFrame

\* errs <- err of the batching goroutine (line 253)
BatchSendErr ==
    /\ batchPc = "sendErr"
    /\ Len(errs) < ErrsCapacity
    /\ errs' = Append(errs, "batch")
    /\ batchPc' = "cancel"
    /\ UNCHANGED <<parallelDownloads, matching, last, page, ids, idsClosed, ctxErr,
                   wg, fetchPc, batchI, done, downloads, started, binPc, binResult>>
    /\ UNCHANGED binaryFrame

\* cancel(); done = true; break (lines 254-256)
BatchCancel ==
    /\ batchPc = "cancel"
    /\ ctxErr' = TRUE
    /\ done' = TRUE
    /\ batchPc' = "wait"
    /\ UNCHANGED <<parallelDownloads, matching, last, page, ids, idsClosed, errs,
                   wg, fetchPc, batchI, downloads, started, binPc, binResult>>
    /\ UNCHANGED binaryFrame

\* BatchRecv taking an empty buffer for a closed channel: the loop ends
\* while ids may still be sent
BatchRecv_NilWhenEmpty ==
    /\ batchPc = "recv"
    /\ IF ids # <<>>
       THEN /\ ids' = Tail(ids)
            /\ downloads' = [downloads EXCEPT ![Head(ids)] = "call"]
            /\ started' = Append(started, Head(ids))
            /\ batchI' = batchI + 1
            /\ batchPc' = "for"
            /\ done' = done
       ELSE /\ done' = TRUE
            /\ batchPc' = "wait"
            /\ UNCHANGED <<ids, downloads, started, batchI>>
    /\ UNCHANGED <<parallelDownloads, matching, last, page, idsClosed, errs, ctxErr,
                   wg, fetchPc, binPc, binResult>>
    /\ UNCHANGED binaryFrame

\* nextID = <-ids: an id, for which a download goroutine is started, or nil
\* once ids is closed and empty; it waits otherwise (lines 259-268)
BatchRecv ==
    /\ batchPc = "recv"
    /\ IF ids # <<>>
       THEN /\ ids' = Tail(ids)
            /\ downloads' = [downloads EXCEPT ![Head(ids)] = "call"]
            /\ started' = Append(started, Head(ids))
            /\ batchI' = batchI + 1
            /\ batchPc' = "for"
            /\ done' = done
       ELSE /\ idsClosed
            /\ done' = TRUE
            /\ batchPc' = "wait"
            /\ UNCHANGED <<ids, downloads, started, batchI>>
    /\ UNCHANGED <<parallelDownloads, matching, last, page, idsClosed, errs, ctxErr,
                   wg, fetchPc, binPc, binResult>>
    /\ UNCHANGED binaryFrame

\* BatchWait without the break on done: the next batch is started whatever
\* happened in this one
BatchWait_NoBreak ==
    /\ batchPc = "wait"
    /\ InFlight = {}
    /\ batchPc' = "for"
    /\ batchI' = 0
    /\ UNCHANGED <<parallelDownloads, matching, last, page, ids, idsClosed, errs,
                   ctxErr, wg, fetchPc, done, downloads, started, binPc, binResult>>
    /\ UNCHANGED binaryFrame

\* downloadWG.Wait(), then `if done { break }` or the next batch
\* (lines 282-285, 250-251)
BatchWait ==
    /\ batchPc = "wait"
    /\ InFlight = {}
    /\ IF done
       THEN batchPc' = "exit" /\ batchI' = batchI
       ELSE batchPc' = "for" /\ batchI' = 0
    /\ UNCHANGED <<parallelDownloads, matching, last, page, ids, idsClosed, errs,
                   ctxErr, wg, fetchPc, done, downloads, started, binPc, binResult>>
    /\ UNCHANGED binaryFrame

\* defer wg.Done() of the batching goroutine (lines 245, 287-290)
BatchDone ==
    /\ batchPc = "exit"
    /\ wg' = wg - 1
    /\ batchPc' = "done"
    /\ UNCHANGED <<parallelDownloads, matching, last, page, ids, idsClosed, errs,
                   ctxErr, fetchPc, batchI, done, downloads, started, binPc,
                   binResult>>
    /\ UNCHANGED binaryFrame

\* downloadBinary(ctx, c.dataClient, dst, id) returns; without an error the
\* goroutine ends (lines 269-271, 276-280)
DownloadCall(id) ==
    /\ downloads[id] = "call"
    /\ \E ok \in BOOLEAN :
        downloads' = [downloads EXCEPT ![id] = IF ok THEN "ok" ELSE "sendErr"]
    /\ UNCHANGED <<parallelDownloads, matching, last, page, ids, idsClosed, errs,
                   ctxErr, wg, fetchPc, batchPc, batchI, done, started, binPc,
                   binResult>>
    /\ UNCHANGED binaryFrame

\* errs <- err of a download goroutine (line 272)
DownloadSendErr(id) ==
    /\ downloads[id] = "sendErr"
    /\ Len(errs) < ErrsCapacity
    /\ errs' = Append(errs, "download")
    /\ downloads' = [downloads EXCEPT ![id] = "cancel"]
    /\ UNCHANGED <<parallelDownloads, matching, last, page, ids, idsClosed, ctxErr,
                   wg, fetchPc, batchPc, batchI, done, started, binPc, binResult>>
    /\ UNCHANGED binaryFrame

\* cancel(); done = true, and the goroutine ends (lines 273-280, 269)
DownloadCancel(id) ==
    /\ downloads[id] = "cancel"
    /\ ctxErr' = TRUE
    /\ done' = TRUE
    /\ downloads' = [downloads EXCEPT ![id] = "failed"]
    /\ UNCHANGED <<parallelDownloads, matching, last, page, ids, idsClosed, errs,
                   wg, fetchPc, batchPc, batchI, started, binPc, binResult>>
    /\ UNCHANGED binaryFrame

\* wg.Wait(); close(errs); <-errs (lines 291-298)
BinaryDataWait ==
    /\ binPc = "wait"
    /\ wg = 0
    /\ IF errs = <<>>
       THEN binResult' = "nil" /\ errs' = errs
       ELSE binResult' = "err" /\ errs' = Tail(errs)
    /\ binPc' = "cancel"
    /\ UNCHANGED <<parallelDownloads, matching, last, page, ids, idsClosed, ctxErr,
                   wg, fetchPc, batchPc, batchI, done, downloads, started>>
    /\ UNCHANGED binaryFrame

\* defer cancel() (line 222), and binaryData returns
BinaryDataReturn ==
    /\ binPc = "cancel"
    /\ ctxErr' = TRUE
    /\ binPc' = "returned"
    /\ UNCHANGED <<parallelDownloads, matching, last, page, ids, idsClosed, errs,
                   wg, fetchPc, batchPc, batchI, done, downloads, started,
                   binResult>>
    /\ UNCHANGED binaryFrame

\* the steps of the id-fetching goroutine (lines 227-240, 302-339)
FetchStep ==
    \/ FetchCtxErr
    \/ FetchQuery
    \/ FetchSend
    \/ FetchSendErr
    \/ FetchCancel
    \/ FetchDone

\* the steps of the batching goroutine (lines 244-290)
BatchStep ==
    \/ BatchFor
    \/ BatchSendErr
    \/ BatchCancel
    \/ BatchRecv
    \/ BatchWait
    \/ BatchDone

\* the steps of the download goroutine of one id (lines 268-280)
DownloadStep(id) ==
    /\ id \in BinaryIDs
    /\ \/ DownloadCall(id)
       \/ DownloadSendErr(id)
       \/ DownloadCancel(id)

\* the steps of binaryData's own goroutine
BinaryDataStep ==
    \/ BinaryDataStart
    \/ BinaryDataWait
    \/ BinaryDataReturn

BinaryDataNext ==
    \/ BinaryDataStep
    \/ FetchStep
    \/ BatchStep
    \/ \E id \in BinaryIDs : DownloadStep(id)

BinaryDataSpec == BinaryDataInit /\ [][BinaryDataNext]_vars

\* every goroutine that can take a step eventually takes one: the remote
\* calls return and the scheduler leaves no runnable goroutine aside
BinaryDataFairSpec ==
    /\ BinaryDataSpec
    /\ WF_vars(BinaryDataStep)
    /\ WF_vars(FetchStep)
    /\ WF_vars(BatchStep)
    /\ \A id \in 1..MaxIds : WF_vars(DownloadStep(id))

\* ------------------------------------------------------------------ downloadBinary
maxRetryCount == 5

\* the file extensions told apart: gzip-compressed or not
FileExts == {".gz", ".jpg"}

\* the errors downloadBinary wraps or makes itself, and any other
ServerError == "received error from server"
NotSingleError == "expected a single response"
CreateFileError == "could not create file for datum"
OtherError == "error"

\* downloadBinary(ctx, client, dst, id) is called
DownloadInit ==
    /\ ServeIdle
    /\ RegistryIdle
    /\ ValidateIdle
    /\ TransformIdle
    /\ MetadataIdle
    /\ ImageSourceIdle
    /\ BinaryDataIdle
    /\ fileExt \in FileExts
    /\ count = 0
    /\ attempts = <<>>
    /\ dlErr = FALSE
    /\ dlPc = "retry"
    /\ files = {}
    /\ dlResult = "none"

\* `return err` of downloadBinary
DownloadReturn(err) ==
    /\ dlResult' = err
    /\ dlPc' = "returned"

\* CallBinaryDataByIDs with `count <= maxRetryCount` as the loop's condition
CallBinaryDataByIDs_OneMore ==
    /\ dlPc = "retry"
    /\ IF count <= maxRetryCount
       THEN \E ok \in BOOLEAN :
               /\ attempts' = Append(attempts, IF ok THEN "ok" ELSE "err")
               /\ dlErr' = ~ok
               /\ IF ok
                  THEN count' = count /\ dlPc' = "checkErr"
                  ELSE count' = count + 1 /\ dlPc' = "retry"
       ELSE /\ dlPc' = "checkErr"
            /\ UNCHANGED <<attempts, dlErr, count>>
    /\ UNCHANGED <<fileExt, files, dlResult>>
    /\ UNCHANGED downloadFrame

\* one turn of the retry loop: count < maxRetryCount, the BinaryDataByIDs
\* call, the break when it returned no error, count++ (lines 344-352)
CallBinaryDataByIDs ==
    /\ dlPc = "retry"
    /\ IF count < maxRetryCount
       THEN \E ok \in BOOLEAN :
               /\ attempts' = Append(attempts, IF ok THEN "ok" ELSE "err")
               /\ dlErr' = ~ok
               /\ IF ok
                  THEN count' = count /\ dlPc' = "checkErr"
                  ELSE count' = count + 1 /\ dlPc' = "retry"
       ELSE /\ dlPc' = "checkErr"
            /\ UNCHANGED <<attempts, dlErr, count>>
    /\ UNCHANGED <<fileExt, files, dlResult>>
    /\ UNCHANGED downloadFrame

\* if err != nil { return errors.Wrapf(err, ...) } (lines 353-355)
CheckServerError ==
    /\ dlPc = "checkErr"
    /\ IF dlErr
       THEN DownloadReturn(ServerError)
       ELSE dlPc' = "checkData" /\ dlResult' = dlResult
    /\ UNCHANGED <<fileExt, count, attempts, dlErr, files>>
    /\ UNCHANGED downloadFrame

\* len(data) != 1 (lines 356-360)
CheckSingleResponse ==
    /\ dlPc = "checkData"
    /\ \E n \in 0..2 :
        IF n # 1
        THEN DownloadReturn(NotSingleError)
        ELSE dlPc' = "marshal" /\ dlResult' = dlResult
    /\ UNCHANGED <<fileExt, count, attempts, dlErr, files>>
    /\ UNCHANGED downloadFrame

\* protojson.Marshal(datum.GetMetadata()) (lines 363-366)
MarshalMetadata ==
    /\ dlPc = "marshal"
    /\ \E ok \in BOOLEAN :
        /\ dlErr' = ~ok
        /\ IF ok
           THEN dlPc' = "createJSON" /\ dlResult' = dlResult
           ELSE DownloadReturn(OtherError)
    /\ UNCHANGED <<fileExt, count, attempts, files>>
    /\ UNCHANGED downloadFrame

\* os.Create of the metadata file (lines 368-381)
CreateMetadataFile ==
    /\ dlPc = "createJSON"
    /\ \E ok \in BOOLEAN :
        /\ dlErr' = ~ok
        /\ IF ok
           THEN /\ files' = files \cup {"metadata"}
                /\ dlPc' = "writeJSON"
                /\ dlResult' = dlResult
           ELSE /\ files' = files
                /\ DownloadReturn(OtherError)
    /\ UNCHANGED <<fileExt, count, attempts>>
    /\ UNCHANGED downloadFrame

\* jsonFile.Write(mdJSONBytes) (lines 382-384)
WriteMetadataFile ==
    /\ dlPc = "writeJSON"
    /\ \E ok \in BOOLEAN :
        IF ok
        THEN dlPc' = "gzip" /\ dlResult' = dlResult
        ELSE DownloadReturn(OtherError)
    /\ UNCHANGED <<fileExt, count, attempts, dlErr, files>>
    /\ UNCHANGED downloadFrame

\* gzip.NewReader(r) for a ".gz" datum (lines 386-394)
GzipReader ==
    /\ dlPc = "gzip"
    /\ IF fileExt = ".gz"
       THEN \E ok \in BOOLEAN :
               /\ dlErr' = ~ok
               /\ IF ok
                  THEN dlPc' = "createData" /\ dlResult' = dlResult
                  ELSE DownloadReturn(OtherError)
       ELSE /\ dlPc' = "createData"
            /\ UNCHANGED <<dlErr, dlResult>>
    /\ UNCHANGED <<fileExt, count, attempts, files>>
    /\ UNCHANGED downloadFrame

\* os.Create of the data file (lines 397-400)
CreateDataFile ==
    /\ dlPc = "createData"
    /\ \E ok \in BOOLEAN :
        /\ dlErr' = ~ok
        /\ IF ok
           THEN /\ files' = files \cup {"data"}
                /\ dlPc' = "copy"
                /\ dlResult' = dlResult
           ELSE /\ files' = files
                /\ DownloadReturn(CreateFileError)
    /\ UNCHANGED <<fileExt, count, attempts>>
    /\ UNCHANGED downloadFrame

\* io.Copy(dataFile, r), r.Close() and `return nil` (lines 402-408)
CopyAndClose ==
    /\ dlPc = "copy"
    /\ \E ok \in BOOLEAN :
        DownloadReturn(IF ok THEN "nil" ELSE OtherError)
    /\ UNCHANGED <<fileExt, count, attempts, dlErr, files>>
    /\ UNCHANGED downloadFrame

DownloadNext ==
    \/ CallBinaryDataByIDs
    \/ CheckServerError
    \/ CheckSingleResponse
    \/ MarshalMetadata
    \/ CreateMetadataFile
    \/ WriteMetadataFile
    \/ GzipReader
    \/ CreateDataFile
    \/ CopyAndClose

DownloadSpec == DownloadInit /\ [][DownloadNext]_vars

\* ------------------------------------------------------------------ reading a cycle's history
Calls == cycle.calls

\* the collaborator call `op` was made in the cycle
Called(op) == \E i \in DOMAIN Calls : Calls[i][1] = op

\* ... and returned `res`
Returned(op, res) == \E i \in DOMAIN Calls : Calls[i] = <<op, res>>

\* some call of the cycle made before position i was `op` returning `res`
Before(i, op, res) == \E j \in DOMAIN Calls : j < i /\ Calls[j] = <<op, res>>

\* the supervisor is back at the head of its loop after a cycle
CycleOver == supPc = "top" /\ cycle.cand # <<>>

\* ------------------------------------------------------------------ C1
\* C1 as stated: in a cycle that was processed and diffed without error, the
\* web service is stopped and started iff NetworkEqual is false, and neither
\* call is made when it is true.
C1_StopAndStartIffNetworkChanged ==
    CycleOver /\ Called("DiffConfigs") /\ ~Returned("DiffConfigs", "err") =>
        /\ (Called("StopWeb") /\ Called("StartWeb")) <=> Returned("DiffConfigs", "changed")
        /\ Returned("DiffConfigs", "equal") => ~Called("StopWeb") /\ ~Called("StartWeb")

\* C1 amended: StopWeb is invoked iff NetworkEqual is false; StartWeb is
\* invoked iff NetworkEqual is false and both StopWeb and createWebOptions
\* returned no error; with NetworkEqual true neither is invoked.
C1_StopIffNetworkChanged ==
    /\ Called("StopWeb") \/ Called("StartWeb") => Returned("DiffConfigs", "changed")
    /\ CycleOver /\ Called("DiffConfigs") /\ ~Returned("DiffConfigs", "err") =>
        /\ Called("StopWeb") <=> Returned("DiffConfigs", "changed")
        /\ Called("StartWeb") <=>
              /\ Returned("DiffConfigs", "changed")
              /\ Returned("StopWeb", "ok")
              /\ Returned("createWebOptions", "ok")

\* a finished cycle whose diff reported a network change and that stopped and
\* started the web service
C1_Witness ==
    /\ CycleOver
    /\ Returned("DiffConfigs", "changed")
    /\ Called("StopWeb")
    /\ Called("StartWeb")

\* ------------------------------------------------------------------ C2
\* C2: in a cycle whose diff reports a network change, every Reconfigure call
\* comes after StopWeb has returned, and StartWeb comes after every Reconfigure.
C2_StopThenReconfigureThenStart ==
    Returned("DiffConfigs", "changed") =>
        \A i \in DOMAIN Calls :
            /\ Calls[i][1] = "Reconfigure" => Before(i, "StopWeb", "ok")
            /\ Calls[i][1] = "StartWeb" => Before(i, "Reconfigure", "done")

\* ------------------------------------------------------------------ C3
\* C3: when processing a candidate fails, the cycle makes no Reconfigure,
\* StopWeb or StartWeb call (nor any other), oldCfg is what it was when the
\* candidate was taken, and the supervisor is back at the head of its loop.
C3_ProcessFailureDiscards ==
    Returned("processConfig", "err") =>
        /\ Calls = <<<<"processConfig", "err">>>>
        /\ oldCfg = cycle.old[1]
        /\ supPc = "top"
        /\ cfg = <<>> /\ processedConfig = <<>>

\* the supervisor is back at the head of its loop after discarding a bad candidate
C3_Witness == Returned("processConfig", "err") /\ supPc = "top" /\ ~ctxDone

\* ------------------------------------------------------------------ C4
\* C4: when the diff fails, no Reconfigure with the candidate has taken
\* effect and the baseline is unchanged.
C4_DiffFailureLeavesRobot ==
    Returned("DiffConfigs", "err") =>
        /\ ~Called("Reconfigure")
        /\ oldCfg = cycle.old[1]

\* ------------------------------------------------------------------ C5
\* C5: oldCfg is advanced to the candidate only in cycles in which every
\* step succeeded: after a cycle with a failed step oldCfg is what it was.
C5_BaselineKeptOnFailure ==
    CycleOver /\ (\E i \in DOMAIN Calls : Calls[i][2] = "err") =>
        oldCfg = cycle.old[1]

\* ------------------------------------------------------------------ C6
\* C6: a candidate is taken only at the blocking select, with no candidate
\* in flight, and every collaborator call is made for the candidate in flight.
C6_OneCycleInFlight ==
    [][ /\ (cfg' # cfg /\ cfg' # <<>>) =>
              supPc = "select" /\ cfg = <<>> /\ processedConfig = <<>> /\ diff = <<>>
        /\ (cycle'.calls # cycle.calls /\ cycle'.calls # <<>>) =>
              cfg # <<>> /\ cycle'.cand = cfg /\ cycle'.old = cycle.old
      ]_vars

\* a cycle five calls deep, about to start the web service
C6_Witness == supPc = "startWeb" /\ Len(Calls) = 5

\* ------------------------------------------------------------------ C7
\* C7: the restart checker cancels the context only after a successful check
\* that said mustRestart; after a failed check it is still running (at most
\* it has seen a cancellation made by someone else).
C7_FailedCheckNeverCancels ==
    /\ rcCancelled => lastCheck = "mustRestart"
    /\ lastCheck = "err" =>
          /\ rcPc \in {"top", "wait", "check", "done"}
          /\ rcPc = "done" => ctxDone
          /\ ~ctxDone => rcPc \in {"top", "wait", "check"}

\* a further check is pending after a failed one
C7_Witness == lastCheck = "err" /\ rcPc = "check" /\ ~ctxDone

\* ------------------------------------------------------------------ C8
\* C8: once a check has said mustRestart the context is cancelled and the
\* checker has returned (no further needsRestart call); that step touches
\* neither the robot, the web service nor the supervisor; and the supervisor
\* loop eventually terminates (if serveWeb got as far as starting it).
C8_MustRestartCancels ==
    /\ [](lastCheck = "mustRestart" => ctxDone /\ rcPc = "done")
    /\ [][lastCheck' = "mustRestart" /\ lastCheck # "mustRestart" =>
            UNCHANGED <<mainVars, webUp, supVars>>]_vars
    /\ (lastCheck = "mustRestart") ~>
            (supPc = "done" \/ (supPc = "notStarted" /\ mainPc = "returned"))

\* the supervisor has terminated after a restart request
C8_Witness == lastCheck = "mustRestart" /\ rcCancelled /\ supPc = "done"

\* ------------------------------------------------------------------ C9
\* C9: the wait before a check is the interval of the most recent successful
\* check, or the default baseline if none has succeeded yet.
C9_WaitIsLastSuppliedInterval ==
    rcPc = "check" =>
        /\ waited = IF lastOk = 0 THEN defaultNeedsRestartCheckInterval ELSE lastOk
        /\ lastCheck = "none" => waited = defaultNeedsRestartCheckInterval

\* a check is pending after a failed check that followed a successful one
\* which supplied an interval other than the default
C9_Witness ==
    /\ rcPc = "check"
    /\ lastCheck = "err"
    /\ lastOk # 0 /\ lastOk # defaultNeedsRestartCheckInterval
    /\ waited = lastOk

\* ------------------------------------------------------------------ C10
\* C10: after cancellation a started supervisor eventually exits, onWatchDone
\* is closed and the watcher is closed; a supervisor blocked in the select
\* can leave it as soon as the context is done, whether or not a candidate
\* arrives.
C10_CancelledSupervisorStops ==
    /\ [](supPc = "select" /\ ctxDone => ENABLED SupSelectDone)
    /\ (ctxDone /\ supPc # "notStarted") ~>
          (supPc = "done" /\ onWatchDone /\ watcher = "closed")

\* cancelled, supervisor exited, onWatchDone closed, watcher closed, serveWeb returned
C10_Witness ==
    /\ ctxDone
    /\ supPc = "done" /\ onWatchDone /\ watcher = "closed"
    /\ mainPc = "returned"

\* ------------------------------------------------------------------ C11
\* C11: diffing a configuration against itself gives an empty diff whose
\* network-equal flag is true, and a cycle whose processed candidate is the
\* baseline it is diffed against never reports a network change and never
\* calls StopWeb or StartWeb.
C11_IdenticalCandidateNeverRestarts ==
    /\ (diff # <<>> /\ processedConfig = <<oldCfg>>) =>
            (diff[1].NetworkEqual /\ diff[1].Modified = {})
    /\ (cycle.cand # <<>> /\ processConfig(cycle.cand[1]) = cycle.old) =>
            /\ ~Returned("DiffConfigs", "changed")
            /\ ~Called("StopWeb")
            /\ ~Called("StartWeb")

\* a finished cycle whose candidate was the baseline and was diffed against it
C11_Witness ==
    /\ CycleOver
    /\ processConfig(cycle.cand[1]) = cycle.old
    /\ Returned("DiffConfigs", "equal")

JustRegistered == lastRegister'[1]

\* the registry holds at most one entry per key
OneEntryPerKey == \A e1, e2 \in registry : e1.key = e2.key => e1 = e2

Doc == input[1]
Result == validated[1]
ReaderReturned == validated # <<>>

\* the checks of the sections other than the network section pass
OtherSectionsValid(doc) ==
    /\ doc.form = "json"
    /\ doc.cloud = <<>> \/ doc.cloud[1].id # ""
    /\ \A i \in 1..Len(Entries(doc.components)) : Entries(doc.components)[i].name # ""

\* a returned model has the default bind address with the flag set when the
\* document gave none, and the document's own address with the flag clear
\* when it gave one, even the default one; missing sections give empty lists
BindAddressHandled ==
    (ReaderReturned /\ Result.conf # <<>>) =>
        LET conf == Result.conf[1] IN
        /\ Doc.bind = <<>> =>
              /\ conf.Network.BindAddress = "localhost:8080"
              /\ conf.Network.BindAddressDefaultSet
        /\ Doc.bind # <<>> =>
              /\ conf.Network.BindAddress = Doc.bind[1]
              /\ ~conf.Network.BindAddressDefaultSet
        /\ Doc.components = <<>> => conf.Components = <<>>
        /\ Doc.services = <<>> => conf.Services = <<>>

\* C15 as stated: validating any configuration whose bind address is unset
\* succeeds, and the bind address and the flag are as described.
C15_UnsetBindAddressSucceeds ==
    /\ (ReaderReturned /\ Doc.form = "json" /\ Doc.bind = <<>>) => Result.err = <<>>
    /\ BindAddressHandled

\* C15, amended: validating a configuration whose bind address is unset and
\* whose other sections are valid (the input `{}` is one) succeeds; on success
\* the bind address is localhost:8080 with BindAddressDefaultSet true and the
\* missing sections are empty lists; an explicitly supplied bind address is
\* kept, with the flag false, even if it equals the default.
C15_DefaultBindAddress ==
    /\ (ReaderReturned /\ OtherSectionsValid(Doc)) => (Result.err = <<>> /\ Result.conf # <<>>)
    /\ (ReaderReturned /\ Doc = EmptyDocument) =>
            Result = [err |-> <<>>,
                      conf |-> <<[ConfigFilePath |-> "somepath",
                                  Cloud |-> <<>>, Components |-> <<>>, Services |-> <<>>,
                                  Network |-> [BindAddress |-> "localhost:8080",
                                               BindAddressDefaultSet |-> TRUE]]>>]
    /\ BindAddressHandled

\* the input `{}` has been validated and the default applied
C15_Witness ==
    /\ ReaderReturned
    /\ Doc = EmptyDocument
    /\ Result.conf # <<>>
    /\ Result.conf[1].Network.BindAddressDefaultSet

\* ------------------------------------------------------------------ C16
\* C16: a configuration whose cloud section is present with an empty id fails
\* validation with the error that "id" is required and no model is returned;
\* a configuration without a cloud section never gets that error.
C16_CloudRequiresId ==
    ReaderReturned =>
        /\ (Doc.cloud # <<>> /\ Doc.cloud[1].id = "") =>
              /\ Result.err # <<>>
              /\ Result.err[1].text = <<"id", "is required">>
              /\ Result.conf = <<>>
        /\ (Doc.cloud = <<>> /\ Result.err # <<>>) =>
              Result.err[1].text # <<"id", "is required">>

\* a document with a cloud section without id, and components, was rejected
C16_Witness ==
    /\ ReaderReturned
    /\ Doc.cloud = <<[id |-> ""]>>
    /\ Doc.components # <<>>
    /\ Result.err # <<>>
    /\ Result.conf = <<>>

\* ------------------------------------------------------------------ C17
\* the first component without a name is reported at its zero-based index
FirstUnnamedReported ==
    LET i == FirstUnnamed(Entries(Doc.components)) IN
    /\ Result.err = <<[path |-> <<"components", i - 1>>, text |-> <<"name", "is required">>]>>
    /\ Result.conf = <<>>

\* C17 as stated: whenever a component has an empty name, validation fails
\* with the error that "name" is required at components.i, i the zero-based
\* index of the first such component, and returns no model.
C17_UnnamedComponentAlwaysReported ==
    (ReaderReturned /\ Doc.form = "json" /\ FirstUnnamed(Entries(Doc.components)) # 0) =>
        FirstUnnamedReported

\* C17, amended: the same, for a configuration whose cloud section is absent
\* or has an id.
C17_UnnamedComponentReported ==
    (/\ ReaderReturned
     /\ Doc.form = "json"
     /\ Doc.cloud = <<>> \/ Doc.cloud[1].id # ""
     /\ FirstUnnamed(Entries(Doc.components)) # 0) =>
        FirstUnnamedReported

\* a named component followed by one without a name was reported at index 1
C17_Witness ==
    /\ ReaderReturned
    /\ Doc.components # <<>>
    /\ Len(Doc.components[1]) = 2
    /\ Doc.components[1][1].name = "foo"
    /\ Doc.components[1][2].name = ""
    /\ Result.err # <<>>
    /\ Result.err[1].path = <<"components", 1>>

\* ------------------------------------------------------------------ C18
\* the arguments of the conversion, whether it returned without error, and
\* the residual bucket it returned
Attrs == attributes[1]
To == dest[1]
Converted == transformed # <<>> /\ transformed[1].err = {}
Residual == transformed[1].out[1].Attributes[1]

\* C18 as stated: whatever the flavor of the residual bucket, every key that
\* no declared field matches is in the bucket after the conversion.
C18_EveryUnmatchedKeyKept ==
    Converted => \A k \in DOMAIN Attrs \ DeclaredFields : k \in DOMAIN Residual

\* C18, amended: after the conversion an AttributeMap bucket holds every key
\* that no declared field matches, and a string-to-string bucket holds every
\* such key whose value is a string; an unmatched key whose value is not a
\* string is not put into a string-to-string bucket.
C18_UnmatchedKeysKept ==
    Converted =>
        \A k \in DOMAIN Attrs \ DeclaredFields :
            IF To.flavor = "AttributeMap" \/ Attrs[k].kind = "string"
            THEN k \in DOMAIN Residual /\ Residual[k] = Attrs[k]
            ELSE k \in DOMAIN Residual => (k \in DOMAIN PriorEntries(To.Attributes)
                                            /\ Residual[k] = PriorEntries(To.Attributes)[k])

\* the attributes of the test (strings at a, b, c, d, a number at e) were
\* converted into a destination with a nil string-to-string bucket, which
\* holds c and d and not e
C18_Witness ==
    /\ Converted
    /\ DOMAIN Attrs = Keys
    /\ \A k \in Keys : Attrs[k].kind = (IF k = "e" THEN "number" ELSE "string")
    /\ To.flavor = "string"
    /\ To.Attributes = <<>>
    /\ DOMAIN Residual = {"c", "d"}

C21_ContextHoldsReturnedMap ==
    /\ [](IsMetadata(mdValue) => md = mdValue.ref)
    /\ [][ContextWithMetadata =>
            IF IsMetadata(mdValue)
            THEN /\ md' = mdValue.ref
                 /\ mdHeap'[md'] = mdHeap[mdValue.ref]
                 /\ mdValue' = mdValue
            ELSE /\ IsMetadata(mdValue')
                 /\ mdHeap'[mdValue'.ref] = EmptyMap]_vars
    /\ [][WriteMetadata => (IsMetadata(mdValue) => mdHeap'[mdValue'.ref] = mdHeap'[md'])]_vars

\* "hello" was written through the returned map and is read from the context
C21_Witness ==
    /\ IsMetadata(mdValue)
    /\ md = mdValue.ref
    /\ "hello" \in DOMAIN mdHeap[mdValue.ref]
    /\ mdHeap[mdValue.ref]["hello"] = "world"

\* ------------------------------------------------------------------ C22
\* C22: when the value under MetadataContextKey is not a metadata map, the
\* next ContextWithMetadata call puts a new, empty metadata map into the
\* context and returns that map; the entries of earlier maps stay where they
\* were and are not in the new one.
C22_OverwrittenValueGivesFreshMap ==
    [][(ContextWithMetadata /\ mdValue = StringValue) =>
            /\ IsMetadata(mdValue')
            /\ mdValue'.ref \notin DOMAIN mdHeap
            /\ mdHeap'[mdValue'.ref] = EmptyMap
            /\ md' = mdValue'.ref
            /\ \A r \in DOMAIN mdHeap : mdHeap'[r] = mdHeap[r]]_vars

\* after an overwrite the context holds a second, empty map while the first
\* one still has its entry
C22_Witness ==
    /\ Len(mdHeap) = 2
    /\ mdValue = MapValue(2)
    /\ md = 2
    /\ mdHeap[2] = EmptyMap
    /\ mdHeap[1] # EmptyMap

C24_StartOnlyAfterStopAndOptions ==
    /\ \A i \in DOMAIN Calls :
          Calls[i][1] = "StartWeb" =>
              /\ Before(i, "StopWeb", "ok")
              /\ Before(i, "createWebOptions", "ok")
    /\ (Returned("StopWeb", "err") \/ Returned("createWebOptions", "err")) =>
          /\ ~Called("StartWeb")
          /\ supPc = "top"
          /\ cfg = <<>>

\* a cycle that stopped the web service and then failed to create the web
\* options is over
C24_Witness ==
    /\ CycleOver
    /\ Returned("StopWeb", "ok")
    /\ Returned("createWebOptions", "err")
    /\ ~webUp

\* ------------------------------------------------------------------ C25
\* C25: when the supervisor goes back to waiting for the next candidate, the
\* baseline oldCfg is the configuration most recently passed to Reconfigure:
\* the processed candidate of the cycle that just ended when that cycle
\* called Reconfigure, and the baseline the cycle started with otherwise.
C25_BaselineIsLastReconfigured ==
    CycleOver =>
        IF Called("Reconfigure")
        THEN <<oldCfg>> = processConfig(cycle.cand[1])
        ELSE oldCfg = cycle.old[1]

\* ------------------------------------------------------------------ C26
\* C26: once web.RunWeb has brought the web service up, it is running
\* whenever the supervisor waits for the next candidate and the context is
\* not cancelled; a cycle in which StopWeb succeeded has also completed a
\* successful StartWeb when the supervisor is back at the head of its loop.
C26_ServiceRunningWhileWaiting ==
    /\ supPc = "select" /\ ~ctxDone /\ mainPc = "serving" => webUp
    /\ CycleOver /\ Returned("StopWeb", "ok") =>
          Returned("StartWeb", "ok") /\ webUp

\* ------------------------------------------------------------------ C27
\* C27: once the context is cancelled it stays cancelled; the supervisor
\* takes a candidate only at the blocking select, reaches the blocking select
\* only from the head of its loop with the context not cancelled, leaves the
\* head of its loop for its return when the context is cancelled, and never
\* resumes after returning. So after the cancellation it takes at most the
\* one candidate of the select it was already blocked in, and none after it
\* has seen the cancellation at the head of its loop.
C27_AtMostOneCycleAfterCancel ==
    [][ /\ ctxDone => ctxDone'
        /\ (supPc' = "process" /\ supPc # "process") => supPc = "select"
        /\ (supPc' = "select" /\ supPc # "select") => supPc = "top" /\ ~ctxDone
        /\ (supPc = "top" /\ ctxDone /\ supPc' # supPc) => supPc' = "returned"
        /\ supPc \in {"returned", "done"} => supPc' \in {"returned", "done"}
      ]_vars

\* a cycle has ended with the context cancelled: the supervisor is at the
\* head of its loop, about to see the cancellation, while serveWeb waits for it
C27_Witness ==
    /\ CycleOver
    /\ ctxDone
    /\ mainPc = "waitDone"
    /\ ~onWatchDone

\* ------------------------------------------------------------------ C28
\* C28: once the supervisor goroutine has been started, serveWeb's return
\* cancels the context, then waits for the goroutine to exit, then closes the
\* watcher, then the robot, then the RPC dialer: each of these has happened
\* when the next one happens, and while the supervisor has not exited (so
\* while it may still call Reconfigure, StopWeb or StartWeb) the watcher,
\* the robot and the dialer are all open.
C28_CleanupOrder ==
    supPc # "notStarted" =>
        /\ mainPc \in {"waitDone", "closeWatcher", "closeRobot", "closeDialer",
                       "cancel", "returned"} => ctxDone
        /\ mainPc \in {"closeWatcher", "closeRobot", "closeDialer", "cancel",
                       "returned"} => supPc = "done" /\ onWatchDone
        /\ watcher = "closed" => ctxDone /\ supPc = "done" /\ onWatchDone
        /\ robot = "closed" => watcher = "closed"
        /\ rpcDialer = "closed" => robot = "closed"
        /\ supPc # "done" =>
              robot = "open" /\ watcher = "open" /\ rpcDialer = "open"

\* serveWeb has cancelled the context and waits for the supervisor, which is
\* still inside a cycle that has called Reconfigure; nothing is closed yet
C28_Witness ==
    /\ mainPc = "waitDone"
    /\ ctxDone
    /\ ~onWatchDone
    /\ Called("Reconfigure")
    /\ supPc \in {"diff", "stopWeb", "webOptions", "startWeb", "commit"}
    /\ watcher = "open" /\ robot = "open" /\ rpcDialer = "open"

\* ------------------------------------------------------------------ C29
\* how many goroutines are at a send on errs
SendingErr ==
    (IF fetchPc = "sendErr" THEN 1 ELSE 0)
        + (IF batchPc = "sendErr" THEN 1 ELSE 0)
        + Cardinality({id \in DOMAIN downloads : downloads[id] = "sendErr"})

\* C29: the errors sent on errs, together with those some goroutine is about
\* to send, never outnumber the capacity 1+parallelDownloads of errs: every
\* send on errs finds room and none waits.
C29_ErrsNeverFull ==
    binPc \in {"wait", "cancel", "returned"} /\ binResult = "none" =>
        /\ Len(errs) + SendingErr <= ErrsCapacity
        /\ ErrsCapacity = 1 + parallelDownloads

\* errs is full: with two parallel downloads it holds the errors of a
\* download, of the batching goroutine and of the id-fetching goroutine
C29_Witness ==
    /\ parallelDownloads = 2
    /\ Len(errs) = 1 + parallelDownloads
    /\ \E k \in DOMAIN errs : errs[k] = "download"
    /\ \E k \in DOMAIN errs : errs[k] = "batch"
    /\ \E k \in DOMAIN errs : errs[k] = "ids"

\* ------------------------------------------------------------------ C30
\* C30: binaryData always returns to its caller, whatever fails, when every
\* remote call returns and every goroutine that can run does.
C30_BinaryDataTerminates == <>(binPc = "returned")

\* ------------------------------------------------------------------ C31
\* no error has been sent or is about to be, and nothing has cancelled ctx
\* before binaryData's own deferred cancel
NoErrorNoCancel ==
    /\ errs = <<>>
    /\ binResult # "err"
    /\ fetchPc \notin {"sendErr", "cancel"}
    /\ batchPc \notin {"sendErr", "cancel"}
    /\ \A id \in DOMAIN downloads : downloads[id] \notin {"sendErr", "cancel", "failed"}
    /\ ctxErr => binPc = "returned"

\* the ids getMatchingBinaryIDs has sent on ids so far, in order
SentIds == Range(0, last - Len(page))

\* C31: without an error or a cancellation, the ids sent on ids are those
\* passed to downloadBinary followed by those still in the channel, each
\* once and in order; ids is closed only after the empty page that follows
\* the last id, by the step that leaves getMatchingBinaryIDs and by no other
\* step; and when binaryData has its nil result every id was sent, passed to
\* downloadBinary once, and its download has completed.
C31_EveryIdDownloadedOnce ==
    /\ [](NoErrorNoCancel =>
            /\ SentIds = started \o ids
            /\ \A id \in DOMAIN downloads :
                  downloads[id] # "none" <=> \E k \in DOMAIN started : started[k] = id
            /\ idsClosed <=> fetchPc \in {"exit", "done"}
            /\ idsClosed => last = matching /\ page = <<>>
            /\ binResult = "nil" =>
                  /\ idsClosed
                  /\ started = Range(0, matching)
                  /\ \A id \in DOMAIN downloads : downloads[id] = "ok")
    /\ [][idsClosed' # idsClosed =>
            /\ ~idsClosed
            /\ fetchPc \in {"ctxErr", "query"}
            /\ fetchPc' \in {"sendErr", "exit"}]_vars

\* binaryData has returned nil after three ids went through the channel one
\* batch at a time
C31_Witness ==
    /\ binPc = "returned"
    /\ binResult = "nil"
    /\ errs = <<>>
    /\ parallelDownloads = 1
    /\ started = <<1, 2, 3>>
    /\ \A id \in DOMAIN downloads : downloads[id] = "ok"

\* ------------------------------------------------------------------ C32
\* every BinaryDataByIDs call made so far returned an error
AllAttemptsFailed == \A k \in DOMAIN attempts : attempts[k] = "err"

\* C32: downloadBinary calls BinaryDataByIDs at most maxRetryCount times
\* and makes no call after one that returned no error; it goes on past the
\* loop only after a call without error or after maxRetryCount failed
\* calls; it returns the wrapped server error exactly when it returns after
\* maxRetryCount failed calls, and then it has created no file.
C32_AtMostMaxRetryCountCalls ==
    /\ Len(attempts) <= maxRetryCount
    /\ \A k \in DOMAIN attempts : k < Len(attempts) => attempts[k] = "err"
    /\ dlPc \notin {"notCalled", "retry"} =>
          \/ attempts # <<>> /\ attempts[Len(attempts)] = "ok"
          \/ Len(attempts) = maxRetryCount /\ AllAttemptsFailed
    /\ dlResult = ServerError =>
          /\ Len(attempts) = maxRetryCount
          /\ AllAttemptsFailed
          /\ files = {}
    /\ dlPc = "returned" /\ Len(attempts) = maxRetryCount /\ AllAttemptsFailed =>
          dlResult = ServerError

\* downloadBinary has returned the wrapped server error after five failed calls
C32_Witness ==
    /\ dlPc = "returned"
    /\ dlResult = ServerError
    /\ attempts = <<"err", "err", "err", "err", "err">>
    /\ files = {}
====
